---- MODULE Spec2Model ----
(***************************************************************************)
(* fdup: duplicate-file finder.  Model of src/src/fdup.rs:                  *)
(*   - disjoint_by_filter_map, the generic grouping engine (parallel key    *)
(*     extraction, join, sequential fold into a HashMap, lazy filtered      *)
(*     iteration over the map);                                             *)
(*   - filesize and checksum, the two key extractors;                       *)
(*   - duplicate_files, the size-then-hash pipeline.                        *)
(*                                                                         *)
(* The specifications share the variables:                                *)
(*   SpecGroup  one call of disjoint_by_filter_map with an arbitrary key    *)
(*              function, threshold and item vector;                        *)
(*   SpecSum    calls of checksum, one read() at a time;                    *)
(*   Spec       one run of duplicate_files over a file tree;                *)
(*   SpecTwice  two runs of duplicate_files over the same tree.             *)
(***************************************************************************)
EXTENDS Integers, Sequences, FiniteSets, TLC

VARIABLES
    key_f,      \* SpecGroup: the key function, item -> Result<K, Option<String>>
    threshold,  \* SpecGroup: the threshold argument
    items,      \* SpecGroup: the items argument (a Vec<T>)
    eng,        \* the activations of disjoint_by_filter_map: 1 = outer, 2 = inner
    stderr,     \* the lines written by eprintln!, in the order written
    out,        \* the groups the consumer has pulled from the returned iterator
    tree,       \* the file tree under the root, in the order the walk yields it
    sort_vec,   \* Spec: the sort_vec argument
    pc,         \* control state of the caller
    ck,         \* SpecSum: the activation of checksum
    sums,       \* SpecSum: per path, the digests its checksum calls returned
    prev,       \* SpecTwice: what the run before this one has output
    opens       \* per path, the calls of File::open on it in this run

vars == <<key_f, threshold, items, eng, stderr, out, tree, sort_vec, pc, ck, sums, prev, opens>>

----------------------------------------------------------------------------
(* Bounds of the model. *)

MaxItems == 4       \* SpecGroup: at most this many items
MaxThreshold == 2   \* SpecGroup: thresholds are 0..MaxThreshold
MaxLen == 2         \* SpecSum: file contents have at most this many bytes
MaxCalls == 2       \* SpecSum: checksum is called at most this often per path
MaxFiles == 4       \* Spec: the walk yields this many entries

Keys == {1, 2}
Msgs == {"EACCES", "ENOENT"}

----------------------------------------------------------------------------
(* Result<K, Option<String>>, the outcome of a key function, plus the       *)
(* unwinding outcome of a key function that panics.                         *)

Ok(k) == [tag |-> "Ok", key |-> k, msg |-> ""]
ErrNone == [tag |-> "ErrNone", key |-> 0, msg |-> ""]
ErrSome(m) == [tag |-> "ErrSome", key |-> 0, msg |-> m]
Panic(m) == [tag |-> "Panic", key |-> 0, msg |-> m]

Outcomes == {Ok(k) : k \in Keys} \cup {ErrNone} \cup {ErrSome(m) : m \in Msgs}

----------------------------------------------------------------------------
(* disjoint_by_filter_map                                                   *)

\* No run of the program has ended yet.
NoRun == [ended |-> FALSE, out |-> <<>>]

\* An activation that is not running.
Idle ==
    [pc |-> "idle", items |-> <<>>, threshold |-> 0, slots |-> <<>>,
     k_to_t_mapping |-> <<>>, acc |-> <<>>]

\* The value of the filter_map closure for one item: Some((key, item)) or None;
\* "panic" when key_f unwound instead of returning.
FilterMapDefaultKey(res) ==
    CASE res.tag = "Ok" -> [st |-> "some", key |-> res.key]
      [] res.tag = "Panic" -> [st |-> "panic", key |-> 0]
      [] OTHER -> [st |-> "some", key |-> 0]

FilterMap(res) ==
    CASE res.tag = "Ok" -> [st |-> "some", key |-> res.key]
      [] res.tag = "ErrNone" -> [st |-> "none", key |-> 0]
      [] res.tag = "ErrSome" -> [st |-> "none", key |-> 0]
      [] res.tag = "Panic" -> [st |-> "panic", key |-> 0]

\* eprintln!("ERROR with {:?}: {}", item, err): the line, by its two holes.
ErrorLine(item, err) == [item |-> item, msg |-> err]

\* What the closure writes to stderr for one item.
EprintlnOnNone(item, res) ==
    IF res.tag \in {"ErrSome", "ErrNone"} THEN <<ErrorLine(item, res.msg)>> ELSE <<>>

Eprintln(item, res) ==
    IF res.tag = "ErrSome" THEN <<ErrorLine(item, res.msg)>> ELSE <<>>

\* The call: every item becomes a task of the parallel iterator.
Call(its, th) ==
    [pc |-> "map", items |-> its, threshold |-> th,
     slots |-> [i \in 1..Len(its) |-> [st |-> "pending", key |-> 0]],
     k_to_t_mapping |-> <<>>, acc |-> <<>>]

Pending(e) == {i \in 1..Len(e.items) : e.slots[i].st = "pending"}
Panicked(e) == {i \in 1..Len(e.items) : e.slots[i].st = "panic"}

\* One worker task: key_f on one item, then the closure's match.  Tasks share
\* nothing but stderr, so a task is one step.
Task(fr, i, res) ==
    /\ eng[fr].pc = "map"
    /\ i \in Pending(eng[fr])
    /\ eng' = [eng EXCEPT ![fr].slots[i] = FilterMap(res)]
    /\ stderr' = stderr \o Eprintln(eng[fr].items[i], res)

\* collect(): the pairs of the tasks that returned Some, in the order of items.
RECURSIVE CollectFrom(_, _, _)
CollectFrom(its, slots, i) ==
    IF i > Len(its) THEN <<>>
    ELSE (IF slots[i].st = "some"
            THEN <<[key |-> slots[i].key, item |-> its[i]]>>
            ELSE <<>>) \o CollectFrom(its, slots, i + 1)

\* collect() returns when every task has run.
JoinedEarly(e) == TRUE

Joined(e) == Pending(e) = {}

\* The end of the parallel phase: collect() hands the pairs to the fold, which
\* starts from an empty HashMap.
Join(fr) ==
    /\ eng[fr].pc = "map"
    /\ Joined(eng[fr])
    /\ Panicked(eng[fr]) = {}
    /\ eng' = [eng EXCEPT ![fr].pc = "fold",
                          ![fr].k_to_t_mapping =
                              CollectFrom(eng[fr].items, eng[fr].slots, 1),
                          ![fr].acc = <<>>]

\* The fold closure: push onto acc[key], or insert vec![item].
FoldStepReplaces(acc, key, item) ==
    [k \in DOMAIN acc \cup {key} |-> IF k = key THEN <<item>> ELSE acc[k]]

FoldStepPushesToo(acc, key, item) ==
    IF key \in DOMAIN acc
      THEN [acc EXCEPT ![key] = Append(@, item)]
      ELSE [k \in DOMAIN acc \cup {key} |-> IF k = key THEN <<item, item>> ELSE acc[k]]

FoldStep(acc, key, item) ==
    IF key \in DOMAIN acc
      THEN [acc EXCEPT ![key] = Append(@, item)]
      ELSE [k \in DOMAIN acc \cup {key} |-> IF k = key THEN <<item>> ELSE acc[k]]

\* One iteration of the fold, on the orchestrating thread; when the pairs are
\* used up the map becomes the iterator.
Fold(fr) ==
    /\ eng[fr].pc = "fold"
    /\ IF eng[fr].k_to_t_mapping = <<>>
         THEN eng' = [eng EXCEPT ![fr].pc = "iter"]
         ELSE LET p == Head(eng[fr].k_to_t_mapping) IN
              eng' = [eng EXCEPT
                        ![fr].k_to_t_mapping = Tail(@),
                        ![fr].acc = FoldStep(@, p.key, p.item)]

\* .filter(move |v| v.len() > threshold)
FilterAtLeast(v, th) == Len(v) >= th

Filter(v, th) == Len(v) > th

\* The map without one entry: into_iter() has moved it out.
Without(acc, k) == [j \in DOMAIN acc \ {k} |-> acc[j]]

----------------------------------------------------------------------------
(* Files.  An entry of the tree is a record: its path, what metadata() says *)
(* of it, its content, and what open() and read() do on it.                 *)

\* PathBuf: the components of the path.
PathBuf(comps) == [inner |-> comps]

\* The bytes of the sampled contents (a byte is 0..255).
SampleBytes == {0, 255}

RECURSIVE SeqsUpTo(_, _)
SeqsUpTo(S, n) ==
    IF n = 0 THEN {<<>>}
    ELSE LET shorter == SeqsUpTo(S, n - 1) IN
         shorter \cup {Append(c, b) : c \in {d \in shorter : Len(d) = n - 1}, b \in S}

RegularFile(p, c, io) == [path |-> p, kind |-> "file", content |-> c, io |-> io]

\* format!("{}", err) of the io::Error of metadata() and of File::open.
MetadataError == "ENOENT"
OpenError == "EACCES"

\* File::open has been called on no path of the tree.
NoOpens == [p \in {tree[i].path : i \in DOMAIN tree} |-> 0]

\* The entry of the tree at a path.
FileAt(p) == CHOOSE f \in {tree[i] : i \in DOMAIN tree} : f.path = p

----------------------------------------------------------------------------
(* checksum                                                                 *)

BufferLen == 131072

\* Sha512 as an injective function of the message fed to the hasher: the
\* hasher's state is the message so far, the digest its base-257 numeral.
HasherInputNothing(h, chunk) == h

HasherInput(h, chunk) == h \o chunk

RECURSIVE HasherResult(_)
HasherResult(h) ==
    IF h = <<>> THEN 0
    ELSE HasherResult(SubSeq(h, 1, Len(h) - 1)) * 257 + h[Len(h)] + 1

\* The sizes file.read(&mut buffer) may return at a file offset: 0 at the end
\* of the file, else any positive count up to the buffer and the rest.
ReadSizes(f, pos) ==
    IF pos >= Len(f.content) THEN {0}
    ELSE {n \in 1..(Len(f.content) - pos) : n <= BufferLen}

\* file.read(&mut buffer) returning n: Err, or Ok(n) with buffer[..n] filled.
FileRead(f, pos, n) ==
    IF f.io = "noread"
      THEN [err |-> TRUE, data |-> <<>>]
      ELSE [err |-> FALSE, data |-> SubSeq(f.content, pos + 1, pos + n)]

\* The activation of checksum: the file's cursor and the hasher.
NoSum == [pc |-> "idle", path |-> PathBuf(<<>>), pos |-> 0, hasher |-> <<>>]
Opened(p) == [pc |-> "loop", path |-> p, pos |-> 0, hasher |-> <<>>]

\* The body of the loop, on the value of one read.
LoopBodySingleRead(st, r) ==
    CASE r.err -> [st EXCEPT !.pc = "panic"]
      [] OTHER -> [st EXCEPT !.pc = "result",
                             !.hasher = HasherInput(@, r.data),
                             !.pos = @ + Len(r.data)]

LoopBody(st, r) ==
    CASE r.err -> [st EXCEPT !.pc = "panic"]
      [] Len(r.data) = 0 -> [st EXCEPT !.pc = "result"]
      [] OTHER -> [st EXCEPT !.hasher = HasherInput(@, r.data),
                             !.pos = @ + Len(r.data)]

\* The loop run to its end, the reads returning the sizes of the schedule in
\* turn (and what ReadSizes allows once the schedule is used up).
RECURSIVE Loop(_, _, _)
Loop(st, f, reads) ==
    IF st.pc # "loop" THEN st
    ELSE LET n == IF reads # <<>> /\ Head(reads) \in ReadSizes(f, st.pos)
                    THEN Head(reads)
                    ELSE CHOOSE m \in ReadSizes(f, st.pos) :
                           \A k \in ReadSizes(f, st.pos) : k <= m
         IN Loop(LoopBody(st, FileRead(f, st.pos, n)), f,
                 IF reads = <<>> THEN <<>> ELSE Tail(reads))

\* checksum(path), the reads following a schedule.
checksum(f, reads) ==
    IF f.io = "noopen" THEN ErrSome(OpenError)
    ELSE LET st == Loop(Opened(f.path), f, reads) IN
         IF st.pc = "panic" THEN Panic("failed reading")
         ELSE Ok(HasherResult(st.hasher))

----------------------------------------------------------------------------
(* SpecSum: checksum called on the files of a directory, repeatedly, one    *)
(* read at a time.                                                          *)

SumFiles(p) ==
    {RegularFile(p, c, io) : c \in SeqsUpTo(SampleBytes, MaxLen), io \in {"ok"}}
       \cup {RegularFile(p, <<0>>, "noopen"), RegularFile(p, <<0>>, "noread")}

InitSum ==
    /\ \E f1 \in SumFiles(PathBuf(<<1>>)), f2 \in SumFiles(PathBuf(<<2>>)) :
         tree = <<f1, f2>>
    /\ ck = NoSum
    /\ sums = <<<<>>, <<>>>>
    /\ pc = "start"
    /\ key_f = <<>>
    /\ threshold = 0
    /\ items = <<>>
    /\ eng = [fr \in 1..2 |-> Idle]
    /\ stderr = <<>>
    /\ out = <<>>
    /\ sort_vec = FALSE
    /\ prev = NoRun
    /\ opens = NoOpens

SumConst == UNCHANGED <<key_f, threshold, items, eng, stderr, out, tree, sort_vec, prev>>

SumNoOpen == SumConst /\ UNCHANGED opens

\* The call, up to File::open: an open error is returned at once.
SumOpen ==
    /\ pc = "start"
    /\ ck.pc = "idle"
    /\ \E i \in DOMAIN tree :
         /\ Len(sums[i]) < MaxCalls
         /\ opens' = [opens EXCEPT ![tree[i].path] = @ + 1]
         /\ IF tree[i].io = "noopen"
              THEN /\ sums' = [sums EXCEPT ![i] = Append(@, ErrSome(OpenError))]
                   /\ ck' = ck
              ELSE /\ ck' = Opened(tree[i].path)
                   /\ sums' = sums
    /\ UNCHANGED pc
    /\ SumConst

\* One turn of the loop: a read and the match on its value.
SumRead ==
    /\ ck.pc = "loop"
    /\ \E n \in ReadSizes(FileAt(ck.path), ck.pos) :
         ck' = LoopBody(ck, FileRead(FileAt(ck.path), ck.pos, n))
    /\ UNCHANGED <<sums, pc>>
    /\ SumNoOpen

\* Ok(hasher.result().as_slice().to_vec())
SumResult ==
    /\ ck.pc = "result"
    /\ \E i \in DOMAIN tree :
         /\ tree[i].path = ck.path
         /\ sums' = [sums EXCEPT ![i] = Append(@, Ok(HasherResult(ck.hasher)))]
    /\ ck' = NoSum
    /\ UNCHANGED pc
    /\ SumNoOpen

\* panic!("failed reading ..."): the thread unwinds.
SumPanic ==
    /\ ck.pc = "panic"
    /\ pc = "start"
    /\ pc' = "panicked"
    /\ UNCHANGED <<ck, sums>>
    /\ SumNoOpen

NextSum == SumOpen \/ SumRead \/ SumResult \/ SumPanic

SpecSum == InitSum /\ [][NextSum]_vars

----------------------------------------------------------------------------
(* filesize, and the helpers of duplicate_files                             *)

\* walkdir::DirEntry: the path of the entry and its depth under the root.
DirEntry(f) == [path |-> f.path, depth |-> Len(f.path.inner)]

\* WalkDir::new(&path).into_iter().filter_map(Result::ok).collect()
Walk == [i \in DOMAIN tree |-> DirEntry(tree[i])]

filesizeOfAnyEntry(entry) ==
    LET meta == FileAt(entry.path) IN
    CASE meta.kind = "nometa" -> ErrSome(MetadataError)
      [] OTHER -> Ok(Len(meta.content))

filesize(entry) ==
    LET meta == FileAt(entry.path) IN
    CASE meta.kind = "file" -> Ok(Len(meta.content))
      [] meta.kind = "dir" -> ErrNone
      [] meta.kind = "nometa" -> ErrSome(MetadataError)

\* DirEntry::into_path
into_path(entry) == entry.path

\* Ord of PathBuf: the components compared in lexicographic order.
RECURSIVE CompsLess(_, _)
CompsLess(a, b) ==
    CASE b = <<>> -> FALSE
      [] a = <<>> -> TRUE
      [] Head(a) # Head(b) -> Head(a) < Head(b)
      [] OTHER -> CompsLess(Tail(a), Tail(b))

PathLess(p, q) == CompsLess(p.inner, q.inner)

\* sorted!(vec): a clone of vec, sorted.
RECURSIVE Insert(_, _)
Insert(p, vec) ==
    IF vec = <<>> THEN <<p>>
    ELSE IF PathLess(p, Head(vec)) THEN <<p>> \o vec
    ELSE <<Head(vec)>> \o Insert(p, Tail(vec))

RECURSIVE sorted(_)
sorted(vec) == IF vec = <<>> THEN <<>> ELSE Insert(Head(vec), sorted(Tail(vec)))

\* The closure of the last map of duplicate_files.
SortArm(flag, vec) == IF flag THEN sorted(vec) ELSE vec

----------------------------------------------------------------------------
(* SpecGroup: one call with arbitrary arguments, the iterator consumed to   *)
(* its end.                                                                 *)

InitGroup ==
    /\ \E n \in 0..MaxItems :
         /\ items = [i \in 1..n |-> i]
         /\ key_f \in [1..n -> Outcomes]
    /\ threshold \in 0..MaxThreshold
    /\ eng = [fr \in 1..2 |-> Idle]
    /\ stderr = <<>>
    /\ out = <<>>
    /\ tree = <<>>
    /\ sort_vec = FALSE
    /\ pc = "start"
    /\ ck = NoSum
    /\ sums = <<>>
    /\ prev = NoRun
    /\ opens = NoOpens

GroupConst == UNCHANGED <<key_f, threshold, items, tree, sort_vec, ck, sums, prev, opens>>

GCall ==
    /\ pc = "start"
    /\ pc' = "iterating"
    /\ eng' = [eng EXCEPT ![1] = Call(items, threshold)]
    /\ UNCHANGED <<stderr, out>>
    /\ GroupConst

GTask ==
    /\ \E i \in 1..Len(items) : Task(1, i, key_f[eng[1].items[i]])
    /\ UNCHANGED <<out, pc>>
    /\ GroupConst

GJoin ==
    /\ Join(1)
    /\ UNCHANGED <<stderr, out, pc>>
    /\ GroupConst

GFold ==
    /\ Fold(1)
    /\ UNCHANGED <<stderr, out, pc>>
    /\ GroupConst

\* next() on the returned iterator: the HashMap hands out its entries in an
\* order of its own; the filter lets a vector through or drops it.
GNext ==
    /\ pc = "iterating"
    /\ eng[1].pc = "iter"
    /\ \E k \in DOMAIN eng[1].acc :
         /\ eng' = [eng EXCEPT ![1].acc = Without(@, k)]
         /\ out' = IF Filter(eng[1].acc[k], eng[1].threshold)
                     THEN Append(out, eng[1].acc[k])
                     ELSE out
    /\ UNCHANGED <<stderr, pc>>
    /\ GroupConst

\* next() returns None.
GEnd ==
    /\ pc = "iterating"
    /\ eng[1].pc = "iter"
    /\ DOMAIN eng[1].acc = {}
    /\ pc' = "done"
    /\ eng' = [eng EXCEPT ![1] = Idle]
    /\ UNCHANGED <<stderr, out>>
    /\ GroupConst

NextGroup == GCall \/ GTask \/ GJoin \/ GFold \/ GNext \/ GEnd

SpecGroup == InitGroup /\ [][NextGroup]_vars

----------------------------------------------------------------------------
(* Spec: one run of duplicate_files, the returned iterator consumed to its  *)
(* end.                                                                     *)

\* The paths of the tree in the order of the walk: directory by directory,
\* which is not the sorted order.
TreePath(i) == PathBuf(<<MaxFiles - ((i - 1) \div 2), i>>)

\* What an entry can be.  The content of a file that cannot be read is never
\* seen; only its length is, and such a file has the length that two of the
\* readable contents have.
Shapes ==
    {[kind |-> "dir", content |-> <<>>, io |-> "ok"],
     [kind |-> "nometa", content |-> <<>>, io |-> "ok"]}
    \cup {[kind |-> "file", content |-> c, io |-> "ok"] : c \in {<<>>, <<0>>, <<255>>}}
    \cup {[kind |-> "file", content |-> c, io |-> io] :
             c \in {<<0>>}, io \in {"noopen", "noread"}}

Init ==
    /\ \E sh \in [1..MaxFiles -> Shapes] :
         tree = [i \in 1..MaxFiles |->
                   [path |-> TreePath(i), kind |-> sh[i].kind,
                    content |-> sh[i].content, io |-> sh[i].io]]
    /\ sort_vec \in BOOLEAN
    /\ pc = "start"
    /\ eng = [fr \in 1..2 |-> Idle]
    /\ stderr = <<>>
    /\ out = <<>>
    /\ key_f = <<>>
    /\ threshold = 0
    /\ items = <<>>
    /\ ck = NoSum
    /\ sums = <<>>
    /\ prev = NoRun
    /\ opens = NoOpens

Const == UNCHANGED <<key_f, threshold, items, tree, sort_vec, ck, sums>>

OneRun == Const /\ UNCHANGED <<prev, opens>>

\* The call: the walk, then the outer call of disjoint_by_filter_map, keyed
\* by filesize.
DuplicateFiles ==
    /\ pc = "start"
    /\ pc' = "iterating"
    /\ eng' = [eng EXCEPT ![1] = Call(Walk, 1)]
    /\ UNCHANGED <<stderr, out>>
    /\ OneRun

SizeTask ==
    /\ \E i \in DOMAIN eng[1].items : Task(1, i, filesize(eng[1].items[i]))
    /\ UNCHANGED <<out, pc>>
    /\ OneRun

SizeJoin ==
    /\ Join(1)
    /\ UNCHANGED <<stderr, out, pc>>
    /\ OneRun

SizeFold ==
    /\ Fold(1)
    /\ UNCHANGED <<stderr, out, pc>>
    /\ OneRun

\* The members of a size group as paths.
IntoPaths(vec) == [i \in DOMAIN vec |-> into_path(vec[i])]

\* flat_map pulls the next size group: the filter drops it, or the closure
\* makes the inner call of disjoint_by_filter_map, keyed by checksum.
SizeNext ==
    /\ pc = "iterating"
    /\ eng[1].pc = "iter"
    /\ eng[2].pc = "idle"
    /\ \E k \in DOMAIN eng[1].acc :
         eng' = [eng EXCEPT
                   ![1].acc = Without(@, k),
                   ![2] = IF Filter(eng[1].acc[k], eng[1].threshold)
                            THEN Call(IntoPaths(eng[1].acc[k]), 1)
                            ELSE @]
    /\ UNCHANGED <<stderr, out, pc>>
    /\ OneRun

\* The read schedules of a file: what each read of checksum returns.
RECURSIVE ReadSchedules(_, _)
ReadSchedules(f, pos) ==
    IF pos >= Len(f.content) THEN {<<0>>}
    ELSE UNION {{<<n>> \o r : r \in ReadSchedules(f, pos + n)} : n \in ReadSizes(f, pos)}

HashTask ==
    /\ \E i \in DOMAIN eng[2].items :
         /\ \E reads \in ReadSchedules(FileAt(eng[2].items[i]), 0) :
               Task(2, i, checksum(FileAt(eng[2].items[i]), reads))
         /\ opens' = [opens EXCEPT ![eng[2].items[i]] = @ + 1]
    /\ UNCHANGED <<out, pc, prev>>
    /\ Const

HashJoin ==
    /\ Join(2)
    /\ UNCHANGED <<stderr, out, pc>>
    /\ OneRun

\* A task has panicked: the panic resumes on the calling thread, which
\* unwinds out of duplicate_files' consumer; tasks not yet run may never run.
\* (The panic hook's own message is no line of eprintln! and is left out of
\* stderr.)
HashPanic ==
    /\ pc = "iterating"
    /\ eng[2].pc = "map"
    /\ Panicked(eng[2]) # {}
    /\ pc' = "panicked"
    /\ eng' = [eng EXCEPT ![2].pc = "panicked"]
    /\ UNCHANGED <<stderr, out>>
    /\ OneRun

HashFold ==
    /\ Fold(2)
    /\ UNCHANGED <<stderr, out, pc>>
    /\ OneRun

\* The next group of the inner iterator, through the filter and the sort.
HashNext ==
    /\ pc = "iterating"
    /\ eng[2].pc = "iter"
    /\ \E k \in DOMAIN eng[2].acc :
         /\ eng' = [eng EXCEPT ![2].acc = Without(@, k)]
         /\ out' = IF Filter(eng[2].acc[k], eng[2].threshold)
                     THEN Append(out, SortArm(sort_vec, eng[2].acc[k]))
                     ELSE out
    /\ UNCHANGED <<stderr, pc>>
    /\ OneRun

\* The inner iterator is exhausted: flat_map goes back to the outer one.
HashEnd ==
    /\ pc = "iterating"
    /\ eng[2].pc = "iter"
    /\ DOMAIN eng[2].acc = {}
    /\ eng' = [eng EXCEPT ![2] = Idle]
    /\ UNCHANGED <<stderr, out, pc>>
    /\ OneRun

\* The outer iterator is exhausted: next() returns None.
Finish ==
    /\ pc = "iterating"
    /\ eng[1].pc = "iter"
    /\ eng[2].pc = "idle"
    /\ DOMAIN eng[1].acc = {}
    /\ pc' = "done"
    /\ eng' = [eng EXCEPT ![1] = Idle]
    /\ UNCHANGED <<stderr, out>>
    /\ OneRun

Next ==
    \/ DuplicateFiles \/ SizeTask \/ SizeJoin \/ SizeFold \/ SizeNext
    \/ HashTask \/ HashJoin \/ HashPanic \/ HashFold \/ HashNext \/ HashEnd
    \/ Finish

Spec == Init /\ [][Next]_vars

----------------------------------------------------------------------------
(* SpecTwice: the program run twice over the same tree.                     *)

\* The process has ended, by return or by panic; it is started again.
Rerun ==
    /\ pc \in {"done", "panicked"}
    /\ ~prev.ended
    /\ prev' = [ended |-> TRUE, out |-> out]
    /\ pc' = "start"
    /\ eng' = [fr \in 1..2 |-> Idle]
    /\ stderr' = <<>>
    /\ out' = <<>>
    /\ opens' = NoOpens
    /\ Const

NextTwice == Next \/ Rerun

SpecTwice == Init /\ [][NextTwice]_vars

----------------------------------------------------------------------------
(* Properties of one call (SpecGroup).                                      *)

Range(s) == {s[i] : i \in DOMAIN s}

ItemSet == Range(items)
IsOk(a) == key_f[a].tag = "Ok"
SameKey(a, b) == IsOk(a) /\ IsOk(b) /\ key_f[a].key = key_f[b].key
\* The key class of an item whose outcome is Ok, among the items of S.
ClassIn(S, a) == {b \in S : SameKey(a, b)}
Class(a) == ClassIn(ItemSet, a)
\* The groups pulled so far, each as the set of its members.
OutSets == {Range(out[n]) : n \in DOMAIN out}
InSomeGroup(a) == \E n \in DOMAIN out : a \in Range(out[n])
SameGroup(a, b) == \E n \in DOMAIN out : a \in Range(out[n]) /\ b \in Range(out[n])
\* The key classes of S that are larger than the threshold.
ClassesOver(S) ==
    {ClassIn(S, a) : a \in {b \in S : IsOk(b) /\ Cardinality(ClassIn(S, b)) > threshold}}

\* C1: two items in one returned group have equal Ok keys, and once the
\* iterator is exhausted two items with equal Ok keys whose class is larger
\* than the threshold are in one returned group.
C1_SameGroupIffSameKey ==
    /\ \A n \in DOMAIN out : \A a, b \in Range(out[n]) : SameKey(a, b)
    /\ pc = "done" =>
         \A a, b \in ItemSet :
            (SameKey(a, b) /\ Cardinality(Class(a)) > threshold) => SameGroup(a, b)

C1_Witness ==
    /\ pc = "done"
    /\ \E a, b, c \in ItemSet :
         /\ a # b /\ SameGroup(a, b)
         /\ IsOk(c) /\ ~SameKey(a, c) /\ InSomeGroup(c) /\ ~SameGroup(a, c)

\* C2: the returned groups are pairwise disjoint, no group holds an item
\* twice, and their union is exactly the items with an Ok outcome whose key
\* class is larger than the threshold.
C2_DisjointExactCover ==
    /\ \A m, n \in DOMAIN out : m # n => Range(out[m]) \cap Range(out[n]) = {}
    /\ \A n \in DOMAIN out : Cardinality(Range(out[n])) = Len(out[n])
    /\ UNION OutSets \subseteq
           {a \in ItemSet : IsOk(a) /\ Cardinality(Class(a)) > threshold}
    /\ pc = "done" =>
         UNION OutSets = {a \in ItemSet : IsOk(a) /\ Cardinality(Class(a)) > threshold}

C2_Witness ==
    /\ pc = "done"
    /\ Len(out) >= 2
    /\ \E n \in DOMAIN out : Len(out[n]) >= 2
    /\ \E a \in ItemSet : ~InSomeGroup(a)

\* C3: no returned group has threshold items or fewer; a key class of at
\* most threshold items is not output at all; a key class of exactly
\* threshold + 1 items is output whole, as one group.
C3_ThresholdBoundary ==
    /\ \A n \in DOMAIN out : Len(out[n]) > threshold /\ Len(out[n]) > 0
    /\ pc = "done" =>
         \A a \in ItemSet : IsOk(a) =>
            /\ Cardinality(Class(a)) <= threshold => ~InSomeGroup(a)
            /\ Cardinality(Class(a)) = threshold + 1 =>
                  \E n \in DOMAIN out :
                     Range(out[n]) = Class(a) /\ Len(out[n]) = threshold + 1

C3_Witness ==
    /\ pc = "done"
    /\ threshold >= 1
    /\ \E a, b \in ItemSet :
         /\ IsOk(a) /\ Cardinality(Class(a)) = threshold /\ ~InSomeGroup(a)
         /\ IsOk(b) /\ Cardinality(Class(b)) = threshold + 1 /\ InSomeGroup(b)

\* C5: an item whose outcome is Fail is in no group; the other items of a
\* key class are still returned as one group when they outnumber the
\* threshold; and the groups are those of the input without the failing
\* item.
C5_ErrorIsolation ==
    \A f \in ItemSet : key_f[f].tag = "ErrSome" =>
       /\ ~InSomeGroup(f)
       /\ pc = "done" =>
            /\ \A a \in ItemSet \ {f} :
                  (IsOk(a) /\ Cardinality(ClassIn(ItemSet \ {f}, a)) > threshold)
                     => ClassIn(ItemSet \ {f}, a) \in OutSets
            /\ OutSets = ClassesOver(ItemSet \ {f})

C5_Witness ==
    /\ pc = "done"
    /\ threshold >= 1
    /\ \E f, a \in ItemSet :
         /\ key_f[f].tag = "ErrSome"
         /\ IsOk(a)
         /\ Cardinality(Class(a)) = Len(items) - 1
         /\ Class(a) \in OutSets

\* C9: the key-to-items map changes only when no key extraction of the call
\* is outstanding, and a step that runs a key extraction leaves the map
\* alone and finds it empty.
C9_MapFoldBarrier ==
    [][\A fr \in 1..2 :
         /\ eng'[fr].acc # eng[fr].acc =>
               Pending(eng[fr]) = {} /\ Pending(eng'[fr]) = {}
         /\ Pending(eng'[fr]) # Pending(eng[fr]) =>
               eng'[fr].acc = eng[fr].acc /\ eng[fr].acc = <<>>
                  /\ eng[fr].k_to_t_mapping = <<>>]_vars

C9_Witness ==
    /\ eng[1].pc = "fold"
    /\ Len(eng[1].items) >= 3
    /\ eng[1].acc # <<>>
    /\ eng[1].k_to_t_mapping # <<>>
    /\ Pending(eng[1]) = {}

----------------------------------------------------------------------------
(* Properties of checksum (SpecSum).                                        *)

\* C8: the loop has fed the hasher exactly the bytes before the cursor, in
\* order; it leaves the loop only at the end of the content; every call
\* returns Ok(digest of the whole content), so the calls on one file agree and
\* two files get the same digest exactly when their contents are equal.
C8_ChecksumOfContent ==
    /\ ck.pc \in {"loop", "result"} =>
         /\ ck.pos <= Len(FileAt(ck.path).content)
         /\ ck.hasher = SubSeq(FileAt(ck.path).content, 1, ck.pos)
    /\ ck.pc = "result" => ck.pos = Len(FileAt(ck.path).content)
    /\ \A i \in DOMAIN tree : \A m \in DOMAIN sums[i] :
         tree[i].io = "ok" => sums[i][m] = Ok(HasherResult(tree[i].content))
    /\ \A i, j \in DOMAIN tree : \A m \in DOMAIN sums[i], n \in DOMAIN sums[j] :
         (sums[i][m].tag = "Ok" /\ sums[j][n].tag = "Ok") =>
            (sums[i][m].key = sums[j][n].key <=> tree[i].content = tree[j].content)

C8_Witness ==
    /\ Len(sums[1]) >= 2
    /\ Len(tree[1].content) >= 2
    /\ Len(sums[2]) >= 1
    /\ sums[2][1].tag = "Ok"
    /\ Len(tree[2].content) = Len(tree[1].content)
    /\ tree[2].content # tree[1].content
    /\ ck.pc = "loop"
    /\ ck.path = tree[2].path
    /\ ck.pos = 1

----------------------------------------------------------------------------
(* Properties of the pipeline (Spec, SpecTwice).                            *)

Slots == DOMAIN tree
Regular == {i \in Slots : tree[i].kind = "file"}
Readable == {i \in Regular : tree[i].io = "ok"}
\* The readable regular files with the content of file i.
ContentClass(i) == {tree[j].path : j \in {k \in Readable : tree[k].content = tree[i].content}}
\* The classes of identical content with at least two members.
Duplicates == {ContentClass(i) : i \in {k \in Readable : Cardinality(ContentClass(k)) >= 2}}
InSomeOut(p) == \E n \in DOMAIN out : p \in Range(out[n])

\* C4: when every regular file of the tree is readable, the reported groups
\* are exactly the classes of identical content with two members or more:
\* members of one group have the same content, and at the end of the run every
\* such class is one group, reported once.
C4_GroupsAreContentClasses ==
    Regular = Readable =>
       /\ \A n \in DOMAIN out : \A p, q \in Range(out[n]) :
             FileAt(p).kind = "file" /\ FileAt(p).content = FileAt(q).content
       /\ OutSets \subseteq Duplicates
       /\ pc # "panicked"
       /\ pc = "done" => OutSets = Duplicates /\ Len(out) = Cardinality(Duplicates)

C4_Witness ==
    /\ pc = "done"
    /\ Regular = Readable
    /\ Len(out) = 1
    /\ \E i, j, k \in Regular :
         /\ i # j
         /\ tree[i].content = tree[j].content
         /\ Len(tree[k].content) = Len(tree[i].content)
         /\ tree[k].content # tree[i].content
         /\ InSomeOut(tree[i].path) /\ InSomeOut(tree[j].path)
         /\ ~InSomeOut(tree[k].path)
    /\ \E i \in Regular : Len(tree[i].content) = 0 /\ ~InSomeOut(tree[i].path)

\* C6: the statement as claimed: no extraction failure, a read error while
\* hashing included, stops the run; the run ends with the groups of the
\* readable files, and with one diagnostic for each file whose extraction
\* failed.
C6_EveryFailureIsADiagnostic ==
    /\ pc # "panicked"
    /\ \A fr \in 1..2 : eng[fr].pc # "panicked"
    /\ pc = "done" => OutSets = Duplicates

\* The lines of stderr that name an item.
Lines(it) == {j \in DOMAIN stderr : stderr[j].item = it}
Entries == Range(Walk)
Paths == {tree[i].path : i \in Slots}
\* The outcome of the key function of an activation on one of its items.
KeyOutcome(fr, it) == IF fr = 1 THEN filesize(it) ELSE checksum(FileAt(it), <<>>)

\* C10: every line of stderr names an item whose outcome is Fail and carries
\* its message, no item is named twice, and once the tasks of a call are
\* joined every item of the call whose outcome is Fail is named; an entry
\* that is not a regular file is named by no line and is in no group.
C10_OneDiagnosticPerFail ==
    /\ \A j \in DOMAIN stderr :
         /\ \/ /\ stderr[j].item \in Entries
               /\ filesize(stderr[j].item) = ErrSome(stderr[j].msg)
            \/ /\ stderr[j].item \in Paths
               /\ checksum(FileAt(stderr[j].item), <<>>) = ErrSome(stderr[j].msg)
         /\ Lines(stderr[j].item) = {j}
    /\ \A fr \in 1..2 : eng[fr].pc \in {"fold", "iter"} =>
         \A i \in DOMAIN eng[fr].items :
            Cardinality(Lines(eng[fr].items[i])) =
               IF KeyOutcome(fr, eng[fr].items[i]).tag = "ErrSome" THEN 1 ELSE 0
    /\ pc = "done" =>
         \A i \in Slots : tree[i].kind = "nometa" =>
            Cardinality(Lines(DirEntry(tree[i]))) = 1
    /\ \A i \in Slots : tree[i].kind = "dir" =>
         /\ filesize(DirEntry(tree[i])) = ErrNone
         /\ Lines(DirEntry(tree[i])) = {}
         /\ Lines(tree[i].path) = {}
         /\ ~InSomeOut(tree[i].path)

C10_Witness ==
    /\ eng[2].pc = "iter"
    /\ Len(stderr) = 2
    /\ \E i, j, k, l \in Slots :
         /\ tree[i].kind = "nometa" /\ Lines(DirEntry(tree[i])) # {}
         /\ tree[j].io = "noopen" /\ Lines(tree[j].path) # {}
         /\ tree[k].kind = "dir"
         /\ l \in Readable /\ tree[l].path \in Range(eng[2].items)

\* C7: the statement as claimed: a second run over the same tree ends with
\* the same set of groups as the first, each group taken as a set of paths;
\* with sort_vec the groups are the same vectors, in ascending path order.
C7_SecondRunSameGroups ==
    (prev.ended /\ pc \in {"done", "panicked"}) =>
       /\ OutSets = {Range(prev.out[n]) : n \in DOMAIN prev.out}
       /\ sort_vec =>
            /\ Range(out) = Range(prev.out)
            /\ \A n \in DOMAIN out : \A i, j \in DOMAIN out[n] :
                  i < j => PathLess(out[n][i], out[n][j])

\* C11: File::open is called on a path for hashing at most once in a run,
\* only on a regular file whose size extraction returned Ok and whose length
\* another such file has, and only once every size extraction of the run has
\* completed; every checksum task that has run has made that one call.  So a
\* file of unique length, an entry that is not a regular file and an entry
\* whose size extraction failed are never opened.
C11_HashOnlySharedSizes ==
    \A i \in Slots :
       /\ opens[tree[i].path] <= 1
       /\ opens[tree[i].path] > 0 =>
            /\ tree[i].kind = "file"
            /\ \E j \in Regular \ {i} : Len(tree[j].content) = Len(tree[i].content)
            /\ Pending(eng[1]) = {}
            /\ eng[1].pc = "iter" \/ pc = "done"
       /\ \A n \in DOMAIN eng[2].items :
            (eng[2].items[n] = tree[i].path /\ n \notin Pending(eng[2]))
               => opens[tree[i].path] = 1

C11_Witness ==
    /\ pc = "done"
    /\ \E i, j, k, l \in Slots :
         /\ i # j
         /\ opens[tree[i].path] = 1 /\ opens[tree[j].path] = 1
         /\ k \in Regular /\ opens[tree[k].path] = 0
         /\ \A m \in Regular \ {k} : Len(tree[m].content) # Len(tree[k].content)
         /\ tree[l].kind \in {"dir", "nometa"} /\ opens[tree[l].path] = 0

====
